---------------------------- MODULE Spec2Model ----------------------------
(***************************************************************************)
(* Model of the assessment back end: the question catalog, the response     *)
(* validator, the scorer (src/app/utils/assessment.py), the submission      *)
(* handler (src/app/api/assessment.py) and the result store driven by       *)
(* AssessmentService (src/app/services/assessment_service.py).              *)
(*                                                                         *)
(* The specifications of the module:                                       *)
(*   SpecScore    the pure functions applied to one list of responses;      *)
(*   Spec         the submit handler, request by request, over the store;   *)
(*   SpecCatalog  the shuffled view of the questions and the lookup by id;  *)
(*   SpecStore    submissions together with the operations that read the    *)
(*                result store;                                             *)
(*   SpecRegister the registration and login requests over the users        *)
(*                collection (src/app/api/auth.py, user_service.py);        *)
(*   SpecAuth     the result listings behind the bearer token               *)
(*                (src/app/api/deps.py), with submissions and registrations.*)
(***************************************************************************)
EXTENDS Integers, Sequences, FiniteSets, TLC

VARIABLES
    responses_in,   \* SpecScore: the List[AssessmentResponse] handed to the pure functions
    score_out,      \* SpecScore: what validate_responses / the scorer returned for it
    results,        \* the assessment_results collection, in insertion order
    req,            \* per request slot: the position of a POST /assessment/submit
    questions_out,  \* SpecCatalog: the last answer of GET /assessment/questions
    lookup_out,     \* SpecCatalog: the last call of get_question_by_id and its result
    read_out,       \* the read operation being answered, with its answer
    users,          \* the users collection, in insertion order
    auth            \* per request slot: the position of a request to /auth

vars == <<responses_in, score_out, results, req, questions_out, lookup_out, read_out,
          users, auth>>

\* The variables each group of actions leaves alone.
notScore == <<results, req, questions_out, lookup_out, read_out, users, auth>>
notStore == <<responses_in, score_out, questions_out, lookup_out, read_out, users, auth>>
notCatalog == <<responses_in, score_out, results, req, read_out, users, auth>>
notRead == <<responses_in, score_out, results, req, questions_out, lookup_out, users, auth>>
notAuth == <<responses_in, score_out, results, req, questions_out, lookup_out, read_out>>

-----------------------------------------------------------------------------
(* The question bank.                                                       *)

\* ASSESSMENT_QUESTIONS.keys(), in the dict's (insertion) order.
DomainOrder ==
    <<"leadership", "accountability", "communication", "innovation",
      "sales", "ethics", "collaboration">>

\* len(questions) for every domain of ASSESSMENT_QUESTIONS.
QuestionsPerDomain == 10

\* set(ASSESSMENT_QUESTIONS.keys())
expected_domains == {DomainOrder[k] : k \in 1..Len(DomainOrder)}

\* The two ids the code tests with `in ["desc_1", "desc_2"]`.
DescriptiveIds == {"desc_1", "desc_2"}

\* DESCRIPTIVE_QUESTIONS: both entries carry the domain tag "collaboration".
\* The wording of a question is stood for by the name of its place in the
\* bank; the seventy-two wordings are all different.
DESCRIPTIVE_QUESTIONS ==
    << [id |-> "desc_1", question_text |-> "text of desc_1",
        type |-> "descriptive", domain |-> "collaboration"],
       [id |-> "desc_2", question_text |-> "text of desc_2",
        type |-> "descriptive", domain |-> "collaboration"] >>

\* all_questions before random.shuffle: one entry per (domain, question) with
\* id = str(question_id), question_id counting from 1 over the domains in
\* order, followed by the descriptive entries.  question_number is assigned
\* after shuffling, so it is 0 here.
NumMcq == Len(DomainOrder) * QuestionsPerDomain

AllQuestions ==
    [n \in 1..(NumMcq + Len(DESCRIPTIVE_QUESTIONS)) |->
        IF n <= NumMcq
        THEN [id |-> ToString(n),
              question_text |->
                  DomainOrder[((n - 1) \div QuestionsPerDomain) + 1] \o " #"
                  \o ToString(((n - 1) % QuestionsPerDomain) + 1),
              domain |-> DomainOrder[((n - 1) \div QuestionsPerDomain) + 1],
              domain_question_number |-> ((n - 1) % QuestionsPerDomain) + 1,
              type |-> "mcq",
              question_number |-> 0]
        ELSE [id |-> DESCRIPTIVE_QUESTIONS[n - NumMcq].id,
              question_text |-> DESCRIPTIVE_QUESTIONS[n - NumMcq].question_text,
              domain |-> DESCRIPTIVE_QUESTIONS[n - NumMcq].domain,
              domain_question_number |-> 0,
              type |-> DESCRIPTIVE_QUESTIONS[n - NumMcq].type,
              question_number |-> 0]]

NumQuestions == Len(AllQuestions)

-----------------------------------------------------------------------------
(* The scorer and the validator: src/app/utils/assessment.py.               *)

\* sum(d.values()) for a dict d, taken over the key set keys.
RECURSIVE SumValues(_, _)
SumValues(d, keys) ==
    IF keys = {} THEN 0
    ELSE LET k == CHOOSE x \in keys : TRUE
         IN d[k] + SumValues(d, keys \ {k})

\* The dict calculate_domain_scores starts from: every domain at 0.
ZeroDomainScores ==
    [d \in {"leadership", "accountability", "communication", "innovation",
            "sales", "ethics", "collaboration"} |-> 0]

\* Mutant of CountsForDomain: the descriptive ids are not excluded.
CountsForDomain_NoDescFilter(response, domain_scores) ==
    response.domain \in DOMAIN domain_scores

\* Line 158: `response.domain in domain_scores and
\*            response.question_id not in ["desc_1", "desc_2"]`.
CountsForDomain(response, domain_scores) ==
    /\ response.domain \in DOMAIN domain_scores
    /\ response.question_id \notin {"desc_1", "desc_2"}

\* The sum of term[i] for i in lo..hi, by halving the range (the loops of
\* the scorer run over up to 70-odd responses; addition is associative, so
\* the order of the additions does not matter).
RECURSIVE SumRange(_, _, _)
SumRange(term, lo, hi) ==
    IF lo > hi THEN 0
    ELSE IF lo = hi THEN term[lo]
    ELSE LET mid == (lo + hi) \div 2
         IN SumRange(term, lo, mid) + SumRange(term, mid + 1, hi)

\* calculate_domain_scores: the dict starts with every domain at 0 and the
\* loop adds response.response to domain_scores[response.domain] for every
\* response that CountsForDomain; the entry of d ends as the sum over those.
calculate_domain_scores(responses) ==
    [d \in DOMAIN ZeroDomainScores |->
        ZeroDomainScores[d] +
        SumRange([i \in 1..Len(responses) |->
                    IF /\ CountsForDomain(responses[i], ZeroDomainScores)
                       /\ responses[i].domain = d
                    THEN responses[i].response ELSE 0],
                 1, Len(responses))]

\* calculate_descriptive_scores: a dict keyed by the descriptive ids that
\* occur; the loop assigns in list order, so the last response with an id
\* is the one that stays.
calculate_descriptive_scores(responses) ==
    LET at(q) == {i \in 1..Len(responses) : responses[i].question_id = q}
        last(q) == CHOOSE i \in at(q) : \A j \in at(q) : j <= i
    IN [q \in {x \in {"desc_1", "desc_2"} : at(x) # {}} |-> responses[last(q)].response]

\* Mutant of calculate_total_score: one domain is left out of the sum.
calculate_total_score_SkipsCollaboration(domain_scores) ==
    SumValues(domain_scores, (DOMAIN domain_scores) \ {"collaboration"})

calculate_total_score(domain_scores) ==
    SumValues(domain_scores, DOMAIN domain_scores)

\* Mutant of get_rating_for_score: strict comparisons at the band edges.
get_rating_for_score_Strict(score) ==
    IF score > 44 THEN "exemplary"
    ELSE IF score > 36 THEN "strength"
    ELSE IF score > 28 THEN "developing"
    ELSE IF score > 20 THEN "weakness"
    ELSE "critical"

get_rating_for_score(score) ==
    IF score >= 44 THEN "exemplary"
    ELSE IF score >= 36 THEN "strength"
    ELSE IF score >= 28 THEN "developing"
    ELSE IF score >= 20 THEN "weakness"
    ELSE "critical"

\* get_overall_rating: band(total / len(domain_scores) * 10).  The argument is
\* a float; the band edges are integers, and for a real x and an integer t,
\* x >= t iff floor(x) >= t, so the band of the float is the band of its
\* floor.  (total * 10 / len is an integer or at least 1/len away from one,
\* far more than the rounding error of the two float operations.)
get_overall_rating(domain_scores) ==
    get_rating_for_score(
        (SumValues(domain_scores, DOMAIN domain_scores) * 10)
            \div Cardinality(DOMAIN domain_scores))

get_domain_ratings(domain_scores) ==
    [d \in DOMAIN domain_scores |-> get_rating_for_score(domain_scores[d])]

\* Lines 206-207.
expected_mcq_questions == 70
expected_descriptive_questions == 2

\* Line 209 / line 210: the two list comprehensions of validate_responses.
mcq_responses(responses) ==
    SelectSeq(responses, LAMBDA r : r.question_id \notin {"desc_1", "desc_2"})

descriptive_responses(responses) ==
    SelectSeq(responses, LAMBDA r : r.question_id \in {"desc_1", "desc_2"})

\* Line 219.
domains_covered(responses) ==
    {mcq_responses(responses)[i].domain : i \in 1..Len(mcq_responses(responses))}

\* Mutant of validate_responses: a descriptive answer of 0 is refused
\* (`1 <= response.response <= 3` at line 231).
validate_responses_DescFromOne(responses) ==
    LET mcq  == mcq_responses(responses)
        desc == descriptive_responses(responses)
    IN IF Len(mcq) # expected_mcq_questions THEN FALSE
       ELSE IF Len(desc) # expected_descriptive_questions THEN FALSE
       ELSE IF domains_covered(responses) # expected_domains THEN FALSE
       ELSE IF \E i \in 1..Len(mcq) : ~(1 <= mcq[i].response /\ mcq[i].response <= 5)
            THEN FALSE
       ELSE IF \E i \in 1..Len(desc) : ~(1 <= desc[i].response /\ desc[i].response <= 3)
            THEN FALSE
       ELSE TRUE

\* Mutant of validate_responses: the covered domains need only include the
\* expected ones (`not expected_domains <= domains_covered` at line 222).
validate_responses_DomainSuperset(responses) ==
    LET mcq  == mcq_responses(responses)
        desc == descriptive_responses(responses)
    IN IF Len(mcq) # expected_mcq_questions THEN FALSE
       ELSE IF Len(desc) # expected_descriptive_questions THEN FALSE
       ELSE IF ~(expected_domains \subseteq domains_covered(responses)) THEN FALSE
       ELSE IF \E i \in 1..Len(mcq) : ~(1 <= mcq[i].response /\ mcq[i].response <= 5)
            THEN FALSE
       ELSE IF \E i \in 1..Len(desc) : ~(0 <= desc[i].response /\ desc[i].response <= 3)
            THEN FALSE
       ELSE TRUE

\* Mutant of validate_responses: the counts are lower limits (`<` for `!=`
\* at lines 212 and 215).
validate_responses_AtLeast(responses) ==
    LET mcq  == mcq_responses(responses)
        desc == descriptive_responses(responses)
    IN IF Len(mcq) < expected_mcq_questions THEN FALSE
       ELSE IF Len(desc) < expected_descriptive_questions THEN FALSE
       ELSE IF domains_covered(responses) # expected_domains THEN FALSE
       ELSE IF \E i \in 1..Len(mcq) : ~(1 <= mcq[i].response /\ mcq[i].response <= 5)
            THEN FALSE
       ELSE IF \E i \in 1..Len(desc) : ~(0 <= desc[i].response /\ desc[i].response <= 3)
            THEN FALSE
       ELSE TRUE

\* Mutant of validate_responses: the upper ends of the ranges are exclusive
\* (`1 <= r < 5` at line 227, `0 <= r < 3` at line 231).
validate_responses_UpperExclusive(responses) ==
    LET mcq  == mcq_responses(responses)
        desc == descriptive_responses(responses)
    IN IF Len(mcq) # expected_mcq_questions THEN FALSE
       ELSE IF Len(desc) # expected_descriptive_questions THEN FALSE
       ELSE IF domains_covered(responses) # expected_domains THEN FALSE
       ELSE IF \E i \in 1..Len(mcq) : ~(1 <= mcq[i].response /\ mcq[i].response < 5)
            THEN FALSE
       ELSE IF \E i \in 1..Len(desc) : ~(0 <= desc[i].response /\ desc[i].response < 3)
            THEN FALSE
       ELSE TRUE

validate_responses(responses) ==
    LET mcq  == mcq_responses(responses)
        desc == descriptive_responses(responses)
    IN IF Len(mcq) # expected_mcq_questions THEN FALSE
       ELSE IF Len(desc) # expected_descriptive_questions THEN FALSE
       ELSE IF domains_covered(responses) # expected_domains THEN FALSE
       ELSE IF \E i \in 1..Len(mcq) : ~(1 <= mcq[i].response /\ mcq[i].response <= 5)
            THEN FALSE
       ELSE IF \E i \in 1..Len(desc) : ~(0 <= desc[i].response /\ desc[i].response <= 3)
            THEN FALSE
       ELSE TRUE

-----------------------------------------------------------------------------
(* Response lists handed to the pure functions (List[AssessmentResponse],   *)
(* src/app/models/assessment.py lines 24-28).                               *)

\* An AssessmentResponse for mcq question number n, with the domain dom.
McqResponse(n, value, dom) ==
    [question_id |-> ToString(n), response |-> value,
     domain |-> dom, question_type |-> "mcq"]

\* An AssessmentResponse for descriptive question desc_k.
DescResponse(k, value) ==
    [question_id |-> DESCRIPTIVE_QUESTIONS[k].id, response |-> value,
     domain |-> DESCRIPTIVE_QUESTIONS[k].domain,
     question_type |-> DESCRIPTIVE_QUESTIONS[k].type]

\* The answer to the j-th question of a domain when the ten answers of the
\* domain are to add up to s, spread as evenly as possible.
AnswerFor(s, j) ==
    (s \div QuestionsPerDomain) + (IF j <= s % QuestionsPerDomain THEN 1 ELSE 0)

\* One response per catalog question, in catalog order: the answers of
\* domain k add up to sv[k]; the descriptive answers are d1 and d2.
CompleteResponses(sv, d1, d2) ==
    [n \in 1..NumQuestions |->
        IF n <= NumMcq
        THEN McqResponse(n,
                AnswerFor(sv[((n - 1) \div QuestionsPerDomain) + 1],
                          AllQuestions[n].domain_question_number),
                AllQuestions[n].domain)
        ELSE DescResponse(n - NumMcq, IF n = NumMcq + 1 THEN d1 ELSE d2)]

Uniform(s) == [k \in 1..Len(DomainOrder) |-> s]

\* s removed at position i.
RemoveAt(s, i) == SubSeq(s, 1, i - 1) \o SubSeq(s, i + 1, Len(s))

\* Every response of domain `from` replaced by a copy of the response to the
\* same-numbered question of domain `to` (the list keeps its length).
ReplaceDomain(s, from, to) ==
    [n \in 1..Len(s) |->
        IF s[n].domain = DomainOrder[from] /\ s[n].question_type = "mcq"
        THEN s[((to - 1) * QuestionsPerDomain) + ((n - 1) % QuestionsPerDomain) + 1]
        ELSE s[n]]

\* Every mcq response of domain number k carries the domain name `name`.
RenameDomain(s, k, name) ==
    [n \in 1..Len(s) |->
        IF s[n].domain = DomainOrder[k] /\ s[n].question_type = "mcq"
        THEN [s[n] EXCEPT !.domain = name]
        ELSE s[n]]

\* All mcq responses but one per domain replaced by copies of the response
\* to question "1": 64 leadership responses and one of each other domain.
SkewedToFirst(s) ==
    [n \in 1..Len(s) |->
        IF n <= NumMcq /\ (n - 1) % QuestionsPerDomain # 0 THEN s[1] ELSE s[n]]

\* How far beyond the 10..50 a domain of ten answers of 1..5 can total the
\* per-domain totals tried go: below 10 some answer is 0, above 50 some is 6.
TotalMargin == 2

\* Descriptive answers tried: -1 and 4 lie outside the accepted 0..3.
DescValues == -1..4

BaseResponses == CompleteResponses(Uniform(30), 1, 2)

ScoreInputs ==
    \* the same total in every domain
    {CompleteResponses(Uniform(s), 0, 3) : s \in (10 - TotalMargin)..(50 + TotalMargin)}
    \* every pair of descriptive answers
    \cup {CompleteResponses(Uniform(s), d[1], d[2]) :
             s \in {10, 37, 50}, d \in DescValues \X DescValues}
    \* one domain apart from the others
    \cup {CompleteResponses([Uniform(p[1]) EXCEPT ![k] = p[2]], 2, 2) :
             k \in 1..Len(DomainOrder),
             p \in {<<10, 50>>, <<50, 10>>, <<43, 44>>, <<20, 19>>, <<30, 9>>, <<30, 51>>}}
    \* a response missing, a response too many
    \cup {RemoveAt(BaseResponses, i) : i \in {1, 35, 70, 71, 72}}
    \cup {BaseResponses \o <<BaseResponses[i]>> : i \in {1, 70, 71, 72}}
    \cup {RemoveAt(BaseResponses, 71) \o <<BaseResponses[i]>> : i \in {1, 72}}
    \cup {RemoveAt(BaseResponses, 1) \o <<BaseResponses[i]>> : i \in {2, 11, 71}}
    \* a domain missing, a domain with an unexpected name
    \cup {ReplaceDomain(BaseResponses, k, (k % Len(DomainOrder)) + 1) :
             k \in 1..Len(DomainOrder)}
    \cup {RenameDomain(BaseResponses, k, "teamwork") : k \in 1..Len(DomainOrder)}
    \cup {[BaseResponses EXCEPT ![i].domain = "teamwork"] : i \in {1, 70}}
    \* the seventy mcq responses unevenly spread over the domains
    \cup {SkewedToFirst(CompleteResponses(Uniform(s), 1, 1)) : s \in {10, 30, 50}}
    \cup {<<>>}

-----------------------------------------------------------------------------
(* SpecScore: validate_responses and the scorer applied to one list.        *)

\* The five values submit_assessment_with_user_data computes, lines 47-51.
ScoreOf(responses) ==
    LET domain_scores == calculate_domain_scores(responses)
    IN [domain_scores      |-> domain_scores,
        descriptive_scores |-> calculate_descriptive_scores(responses),
        total_score        |-> calculate_total_score(domain_scores),
        overall_rating     |-> get_overall_rating(domain_scores),
        domain_ratings     |-> get_domain_ratings(domain_scores)]

\* read_out when no read operation is being answered.
NoRead == [op |-> "none"]

\* lookup_out before get_question_by_id has been called.
NoLookup == [called |-> FALSE]

\* score_out before either function has run.
NoScoreOut == [validated |-> FALSE, valid |-> FALSE, scored |-> FALSE, score |-> <<>>]

InitScore ==
    /\ responses_in \in ScoreInputs
    /\ score_out = NoScoreOut
    /\ results = <<>>
    /\ req = <<>>
    /\ questions_out = <<>>
    /\ lookup_out = NoLookup
    /\ read_out = NoRead
    /\ users = <<>>
    /\ auth = <<>>

\* validate_responses(responses)
Validate ==
    /\ ~score_out.validated
    /\ score_out' = [score_out EXCEPT !.validated = TRUE,
                                      !.valid = validate_responses(responses_in)]
    /\ UNCHANGED <<responses_in, notScore>>

\* The scorer on the same list.
Score ==
    /\ ~score_out.scored
    /\ score_out' = [score_out EXCEPT !.scored = TRUE,
                                      !.score = ScoreOf(responses_in)]
    /\ UNCHANGED <<responses_in, notScore>>

NextScore == Validate \/ Score

SpecScore == InitScore /\ [][NextScore]_vars

-----------------------------------------------------------------------------
(* The shuffled view and the lookup by id.                                  *)

\* The orders random.shuffle is let to produce here: the catalog order, its
\* reverse, and two rotations.  Each is a permutation of 1..NumQuestions.
ShuffleOrders ==
    << [i \in 1..NumQuestions |-> i],
       [i \in 1..NumQuestions |-> NumQuestions + 1 - i],
       [i \in 1..NumQuestions |-> ((i + 16) % NumQuestions) + 1],
       [i \in 1..NumQuestions |-> ((i + 70) % NumQuestions) + 1] >>

\* Mutant of get_shuffled_questions: the question numbers are assigned
\* before the shuffle, so each entry keeps the number of its catalog place.
get_shuffled_questions_NumberedBeforeShuffle(perm) ==
    [i \in 1..NumQuestions |-> [AllQuestions[perm[i]] EXCEPT !.question_number = perm[i]]]

\* get_shuffled_questions() when the shuffle produces the order perm: entry
\* i is catalog entry perm[i], numbered i.
get_shuffled_questions(perm) ==
    [i \in 1..NumQuestions |-> [AllQuestions[perm[i]] EXCEPT !.question_number = i]]

\* Python's None.
None == [none |-> TRUE]

\* Mutant of get_question_by_id: the entry is found by its number in the
\* shuffled view instead of by its id.
get_question_by_id_ByNumber(perm, question_id) ==
    LET questions == get_shuffled_questions(perm)
        hits == {i \in 1..NumQuestions : ToString(questions[i].question_number) = question_id}
    IN IF hits = {} THEN None
       ELSE questions[CHOOSE i \in hits : \A j \in hits : i <= j]

\* AssessmentService.get_question_by_id: the first entry of a fresh shuffled
\* view whose id is question_id, or None.
get_question_by_id(perm, question_id) ==
    LET questions == get_shuffled_questions(perm)
        hits == {i \in 1..NumQuestions : questions[i].id = question_id}
    IN IF hits = {} THEN None
       ELSE questions[CHOOSE i \in hits : \A j \in hits : i <= j]

\* The body GET /assessment/questions answers with: the shuffled view
\* without the domain tags.
get_assessment_questions(perm) ==
    LET questions == get_shuffled_questions(perm)
    IN [questions |->
           [i \in 1..Len(questions) |->
               [id              |-> questions[i].id,
                question_text   |-> questions[i].question_text,
                question_number |-> questions[i].question_number,
                type            |-> questions[i].type]],
        total_questions |-> Len(questions),
        domains |-> <<"leadership", "accountability", "communication", "innovation",
                      "sales", "ethics", "collaboration">>]

\* The ids get_question_by_id is asked for: every catalog id, and ids of no
\* catalog entry.
LookupIds ==
    {AllQuestions[n].id : n \in 1..NumQuestions} \cup {"71", "01", "0", "desc_3", ""}

InitCatalog ==
    /\ responses_in = <<>>
    /\ score_out = NoScoreOut
    /\ results = <<>>
    /\ req = <<>>
    /\ questions_out = <<>>
    /\ lookup_out = NoLookup
    /\ read_out = NoRead
    /\ users = <<>>
    /\ auth = <<>>

\* GET /assessment/questions, the shuffle producing order number `order`.
GetQuestions(order) ==
    /\ questions_out' = get_assessment_questions(ShuffleOrders[order])
    /\ UNCHANGED <<lookup_out, notCatalog>>

\* A call of get_question_by_id, which shuffles afresh.
GetQuestionById(order, question_id) ==
    /\ lookup_out' = [called |-> TRUE, question_id |-> question_id,
                      question |-> get_question_by_id(ShuffleOrders[order], question_id)]
    /\ UNCHANGED <<questions_out, notCatalog>>

NextCatalog ==
    \E order \in 1..Len(ShuffleOrders) :
        \/ GetQuestions(order)
        \/ \E question_id \in LookupIds : GetQuestionById(order, question_id)

SpecCatalog == InitCatalog /\ [][NextCatalog]_vars

-----------------------------------------------------------------------------
(* POST /assessment/submit.                                                 *)

\* A timestamp string of the request body: the wall-clock seconds it shows,
\* and its form: "naive" (no offset), "Z" (UTC, written with Z), "offset"
\* (an explicit UTC offset of `offset` seconds) or "bad" (not ISO 8601).
TimeString(form, secs, offset) == [form |-> form, secs |-> secs, offset |-> offset]

\* A Python exception raised while evaluating an expression.
Raised(kind) == [raised |-> kind]
IsRaised(v) == "raised" \in DOMAIN v

\* datetime.fromisoformat(text.replace('Z', '+00:00')): a datetime, aware
\* (carrying its offset, utc the instant it denotes) or naive; ValueError
\* for a string that is not in ISO format.
fromisoformat(text) ==
    IF text.form = "bad" THEN Raised("ValueError")
    ELSE IF text.form = "naive" THEN [aware |-> FALSE, secs |-> text.secs, utc |-> text.secs]
    ELSE IF text.form = "Z" THEN [aware |-> TRUE, secs |-> text.secs, utc |-> text.secs]
    ELSE [aware |-> TRUE, secs |-> text.secs, utc |-> text.secs - text.offset]

\* (completed_at - started_at).total_seconds(): two aware datetimes differ by
\* their instants, two naive ones by their wall-clock readings; mixing the
\* two raises TypeError.
total_seconds(completed_at, started_at) ==
    IF completed_at.aware # started_at.aware THEN Raised("TypeError")
    ELSE IF completed_at.aware THEN [seconds |-> completed_at.utc - started_at.utc]
    ELSE [seconds |-> completed_at.secs - started_at.secs]

\* int(x / 60) for a number of seconds x: int() truncates toward zero.
MinutesOf(seconds) ==
    IF seconds >= 0 THEN seconds \div 60 ELSE -((-seconds) \div 60)

\* Mutant of processed_responses: the domain and the type of a response are
\* the ones the client sent with it.
processed_responses_ClientFields(responses, seed) ==
    LET question(i) ==
            get_question_by_id(ShuffleOrders[((seed + i) % Len(ShuffleOrders)) + 1],
                               responses[i].question_id)
        found == SelectSeq([i \in 1..Len(responses) |-> i],
                           LAMBDA i : question(i) # None)
    IN [k \in 1..Len(found) |->
          [question_id   |-> responses[found[k]].question_id,
           response      |-> responses[found[k]].response,
           domain        |-> responses[found[k]].domain,
           question_type |-> responses[found[k]].question_type]]

\* Lines 46-57 of submit_assessment: each submitted response whose
\* question_id get_question_by_id finds is rebuilt with the catalog's domain
\* and type; the others are left out.  The lookup for response i shuffles
\* afresh: it sees order number ((seed + i) mod the number of orders) + 1.
processed_responses(responses, seed) ==
    LET question(i) ==
            get_question_by_id(ShuffleOrders[((seed + i) % Len(ShuffleOrders)) + 1],
                               responses[i].question_id)
        found == SelectSeq([i \in 1..Len(responses) |-> i],
                           LAMBDA i : question(i) # None)
    IN [k \in 1..Len(found) |->
          [question_id   |-> responses[found[k]].question_id,
           response      |-> responses[found[k]].response,
           domain        |-> question(found[k]).domain,
           question_type |-> question(found[k]).type]]

\* The failure submit_assessment_with_user_data raises for invalid responses
\* (lines 41-44).
InvalidResponses == [raised |-> "HTTPException", status_code |-> 400,
                     detail |-> "Invalid assessment responses"]

\* Mutant of submit_assessment_with_user_data: the validation result is
\* ignored and every list of responses is scored.
submit_assessment_with_user_data_NoValidation(user_data, responses, started_at, completed_at, now) ==
    LET domain_scores == calculate_domain_scores(responses)
        time_diff == total_seconds(completed_at, started_at)
    IN IF IsRaised(time_diff) THEN time_diff
       ELSE [result_data |->
               [user_data          |-> user_data,
                responses          |-> responses,
                domain_scores      |-> domain_scores,
                descriptive_scores |-> calculate_descriptive_scores(responses),
                total_score        |-> calculate_total_score(domain_scores),
                overall_rating     |-> get_overall_rating(domain_scores),
                started_at         |-> started_at,
                completed_at       |-> completed_at,
                total_time_minutes |-> MinutesOf(time_diff.seconds),
                created_at         |-> now],
             domain_ratings |-> get_domain_ratings(domain_scores)]

\* AssessmentService.submit_assessment_with_user_data up to its await (lines
\* 39-69): the exception it raises, or the result_data dict it is about to
\* insert together with the local domain_ratings.  now is datetime.utcnow().
submit_assessment_with_user_data(user_data, responses, started_at, completed_at, now) ==
    IF ~validate_responses(responses) THEN InvalidResponses
    ELSE LET domain_scores == calculate_domain_scores(responses)
             descriptive_scores == calculate_descriptive_scores(responses)
             total_score == calculate_total_score(domain_scores)
             overall_rating == get_overall_rating(domain_scores)
             domain_ratings == get_domain_ratings(domain_scores)
             time_diff == total_seconds(completed_at, started_at)
         IN IF IsRaised(time_diff) THEN time_diff
            ELSE [result_data |->
                    [user_data          |-> user_data,
                     responses          |-> responses,
                     domain_scores      |-> domain_scores,
                     descriptive_scores |-> descriptive_scores,
                     total_score        |-> total_score,
                     overall_rating     |-> overall_rating,
                     started_at         |-> started_at,
                     completed_at       |-> completed_at,
                     total_time_minutes |-> MinutesOf(time_diff.seconds),
                     created_at         |-> now],
                  domain_ratings |-> domain_ratings]

\* The AssessmentResultResponse built at lines 76-88 from the inserted id,
\* the result_data and the local domain_ratings.
AssessmentResultResponse(inserted_id, result_data, domain_ratings) ==
    [id                 |-> ToString(inserted_id),
     user_data          |-> result_data.user_data,
     domain_scores      |-> result_data.domain_scores,
     descriptive_scores |-> result_data.descriptive_scores,
     total_score        |-> result_data.total_score,
     overall_rating     |-> result_data.overall_rating,
     domain_ratings     |-> domain_ratings,
     started_at         |-> result_data.started_at,
     completed_at       |-> result_data.completed_at,
     total_time_minutes |-> result_data.total_time_minutes,
     created_at         |-> result_data.created_at]

\* The document insert_one writes: result_data with its _id.
StoredDocument(inserted_id, result_data) ==
    [_id                |-> inserted_id,
     user_data          |-> result_data.user_data,
     responses          |-> result_data.responses,
     domain_scores      |-> result_data.domain_scores,
     descriptive_scores |-> result_data.descriptive_scores,
     total_score        |-> result_data.total_score,
     overall_rating     |-> result_data.overall_rating,
     started_at         |-> result_data.started_at,
     completed_at       |-> result_data.completed_at,
     total_time_minutes |-> result_data.total_time_minutes,
     created_at         |-> result_data.created_at]

-----------------------------------------------------------------------------
(* Request bodies (AssessmentSubmission, src/app/models/assessment.py       *)
(* lines 30-34) sent to POST /assessment/submit.                            *)

\* A response as a client sends it: the client may put anything in domain.
ClientResponse(question_id, value) ==
    [question_id |-> question_id, response |-> value,
     domain |-> "", question_type |-> "mcq"]

\* One response per catalog question, answers adding up to sv[k] in domain k.
ClientComplete(sv, d1, d2) ==
    [n \in 1..NumQuestions |->
        ClientResponse(CompleteResponses(sv, d1, d2)[n].question_id,
                       CompleteResponses(sv, d1, d2)[n].response)]

AssessmentSubmission(email, responses, started_at, completed_at) ==
    [user_data    |-> [email |-> email],
     responses    |-> responses,
     started_at   |-> started_at,
     completed_at |-> completed_at]

\* The same responses with other client-supplied domain and question_type.
WithClientFields(responses, domain, question_type) ==
    [n \in 1..Len(responses) |->
        [responses[n] EXCEPT !.domain = domain, !.question_type = question_type]]

\* Question ids no catalog entry has ("01" is not str(1)).
UnknownIds == {"71", "01"}

Submissions ==
    \* accepted: every question answered once
    { AssessmentSubmission("ana@example.com", ClientComplete(Uniform(50), 3, 3),
          TimeString("Z", 0, 0), TimeString("Z", 1500, 0)),
      AssessmentSubmission("ben@example.com", ClientComplete(Uniform(10), 0, 0),
          TimeString("naive", 100, 0), TimeString("naive", 70, 0)),
      AssessmentSubmission("ana@example.com",
          ClientComplete(<<10, 19, 20, 28, 36, 44, 50>>, 0, 3),
          TimeString("offset", 3600, 3600), TimeString("Z", 119, 0)) }
    \* a response with an unknown id in place of one, or on top of all
    \cup { AssessmentSubmission("ana@example.com",
               [ClientComplete(Uniform(50), 3, 3) EXCEPT ![n].question_id = "71"],
               TimeString("Z", 0, 0), TimeString("Z", 1500, 0)) : n \in {1, 72} }
    \cup { AssessmentSubmission("ben@example.com",
               ClientComplete(Uniform(30), 1, 2) \o <<ClientResponse(q, 3)>>,
               TimeString("naive", 0, 0), TimeString("naive", 60, 0)) : q \in UnknownIds }
    \* 70 mcq and 2 descriptive responses, but question "1" answered twice
    \* and question "2" not at all
    \cup { AssessmentSubmission("ben@example.com",
               [ClientComplete(Uniform(30), 1, 2) EXCEPT ![2].question_id = "1"],
               TimeString("naive", 0, 0), TimeString("naive", 60, 0)) }
    \* rejected: a question unanswered, an answer out of range
    \cup { AssessmentSubmission("ben@example.com",
               RemoveAt(ClientComplete(Uniform(30), 1, 2), 5),
               TimeString("naive", 0, 0), TimeString("naive", 60, 0)),
           AssessmentSubmission("ben@example.com", ClientComplete(Uniform(52), 1, 2),
               TimeString("naive", 0, 0), TimeString("naive", 60, 0)),
           AssessmentSubmission("ben@example.com", ClientComplete(Uniform(30), 1, 4),
               TimeString("naive", 0, 0), TimeString("naive", 60, 0)) }
    \* bodies that differ from one above only in the domain and question_type
    \* their responses carry
    \cup { AssessmentSubmission("ana@example.com",
               WithClientFields(ClientComplete(<<10, 19, 20, 28, 36, 44, 50>>, 0, 3),
                                "sales", "descriptive"),
               TimeString("offset", 3600, 3600), TimeString("Z", 119, 0)),
           AssessmentSubmission("ana@example.com",
               CompleteResponses(<<10, 19, 20, 28, 36, 44, 50>>, 0, 3),
               TimeString("offset", 3600, 3600), TimeString("Z", 119, 0)),
           AssessmentSubmission("ben@example.com",
               WithClientFields(ClientComplete(Uniform(30), 1, 4), "ethics", "mcq"),
               TimeString("naive", 0, 0), TimeString("naive", 60, 0)) }
    \* timestamps that do not parse, or cannot be subtracted
    \cup { AssessmentSubmission("ana@example.com", ClientComplete(Uniform(50), 3, 3),
               TimeString("bad", 0, 0), TimeString("Z", 1500, 0)),
           AssessmentSubmission("ana@example.com", ClientComplete(Uniform(50), 3, 3),
               TimeString("naive", 0, 0), TimeString("Z", 1500, 0)) }

-----------------------------------------------------------------------------
(* Spec: the submit handler over the result store.                          *)

\* Two requests are handled at the same time by the event loop.
Slots == {1, 2}

\* Result documents ever created (the store only grows).
MaxResults == 2

Idle == [pc |-> "idle"]

\* Result documents created so far: stored, or waiting on insert_one.
Created == Len(results) + Cardinality({s \in Slots : req[s].pc = "inserting"})

Init ==
    /\ responses_in = <<>>
    /\ score_out = NoScoreOut
    /\ results = <<>>
    /\ req = [s \in Slots |-> Idle]
    /\ questions_out = <<>>
    /\ lookup_out = NoLookup
    /\ read_out = NoRead
    /\ users = <<>>
    /\ auth = [s \in Slots |-> Idle]

\* submit_assessment from its start to the await on insert_one (or to the
\* exception that ends it), as the state the request is left in: the
\* timestamps are parsed (a ValueError escapes the handler: status 500), the
\* responses are resolved against the catalog, and the service validates,
\* scores and computes the elapsed time; whatever the service raises is
\* answered with status 400 (lines 67-71).  now is the clock reading.
submit_assessment(submission, seed, now) ==
    LET started_at == fromisoformat(submission.started_at)
        completed_at == fromisoformat(submission.completed_at)
    IN IF IsRaised(started_at) \/ IsRaised(completed_at)
       THEN [pc |-> "responded", submission |-> submission,
             status_code |-> 500, body |-> Raised("ValueError")]
       ELSE LET out == submit_assessment_with_user_data(
                           submission.user_data,
                           processed_responses(submission.responses, seed),
                           started_at, completed_at, now)
            IN IF IsRaised(out)
               THEN [pc |-> "responded", submission |-> submission,
                     status_code |-> 400, body |-> out]
               ELSE [pc |-> "inserting", submission |-> submission,
                     result_data |-> out.result_data,
                     domain_ratings |-> out.domain_ratings]

\* submit_assessment evaluated once for every request body, every choice of
\* shuffles and every clock reading.
HandlerRuns ==
    {[now |-> now, after |-> submit_assessment(submission, seed, now)] :
        submission \in Submissions, seed \in 1..Len(ShuffleOrders),
        now \in 1..(MaxResults + 1)}

\* A request arrives at an idle slot and runs to its first await or to its
\* end.  The clock reads the number of result documents created so far,
\* plus one.
SubmitBegin(s, run) ==
    /\ req[s].pc = "idle"
    /\ run.now = Created + 1
    /\ run.after.pc = "inserting" => Created < MaxResults
    /\ req' = [req EXCEPT ![s] = run.after]
    /\ UNCHANGED <<results, notStore>>

\* Mutant of SubmitInsert: result_data is kept in a variable of the module,
\* shared by the requests, so what is inserted and returned is the
\* result_data of the request that set the field last.
SubmitInsert_SharedResultData(s) ==
    /\ req[s].pc = "inserting"
    /\ LET inserted_id == Len(results) + 1
           waiting == {x \in Slots : req[x].pc = "inserting"}
           last == CHOOSE x \in waiting :
                      \A y \in waiting :
                         req[y].result_data.created_at <= req[x].result_data.created_at
       IN /\ results' = Append(results, StoredDocument(inserted_id, req[last].result_data))
          /\ req' = [req EXCEPT ![s] =
                       [pc |-> "responded", submission |-> req[s].submission,
                        status_code |-> 200,
                        body |-> AssessmentResultResponse(inserted_id, req[last].result_data,
                                                          req[last].domain_ratings)]]
    /\ UNCHANGED notStore

\* Mutant of SubmitInsert: the document replaces the one stored for the same
\* user_data, if there is one (replace_one with upsert).
SubmitInsert_ReplacesSameUser(s) ==
    /\ req[s].pc = "inserting"
    /\ LET same == {n \in 1..Len(results) :
                       results[n].user_data = req[s].result_data.user_data}
           inserted_id == IF same = {} THEN Len(results) + 1
                          ELSE results[CHOOSE n \in same : TRUE]._id
       IN /\ results' =
                IF same = {}
                THEN Append(results, StoredDocument(inserted_id, req[s].result_data))
                ELSE [results EXCEPT ![CHOOSE n \in same : TRUE] =
                         StoredDocument(inserted_id, req[s].result_data)]
          /\ req' = [req EXCEPT ![s] =
                       [pc |-> "responded", submission |-> req[s].submission,
                        status_code |-> 200,
                        body |-> AssessmentResultResponse(inserted_id, req[s].result_data,
                                                          req[s].domain_ratings)]]
    /\ UNCHANGED notStore

\* insert_one completes (line 72): the document is in the collection under a
\* fresh _id, and the handler returns the AssessmentResultResponse.
SubmitInsert(s) ==
    /\ req[s].pc = "inserting"
    /\ LET inserted_id == Len(results) + 1
       IN /\ results' = Append(results, StoredDocument(inserted_id, req[s].result_data))
          /\ req' = [req EXCEPT ![s] =
                       [pc |-> "responded", submission |-> req[s].submission,
                        status_code |-> 200,
                        body |-> AssessmentResultResponse(inserted_id, req[s].result_data,
                                                          req[s].domain_ratings)]]
    /\ UNCHANGED notStore

\* The response has been sent; the slot takes the next request.
Close(s) ==
    /\ req[s].pc = "responded"
    /\ req' = [req EXCEPT ![s] = Idle]
    /\ UNCHANGED <<results, notStore>>

Next ==
    \E s \in Slots :
        \/ \E run \in HandlerRuns : SubmitBegin(s, run)
        \/ SubmitInsert(s)
        \/ Close(s)

Spec == Init /\ [][Next]_vars

-----------------------------------------------------------------------------
(* Reading the result store.                                                *)

\* ObjectId(text): the ObjectId a well-formed string denotes (str() of that
\* ObjectId is the string again), InvalidId for any other string.
ObjectId(text) ==
    LET denoted == {n \in 1..(MaxResults + 2) : ToString(n) = text}
    IN IF denoted = {} THEN Raised("InvalidId") ELSE [oid |-> CHOOSE n \in denoted : TRUE]

\* A datetime as the driver returns it: the instant that was stored, as a
\* naive datetime in UTC.
StoredDatetime(datetime) == [aware |-> FALSE, secs |-> datetime.utc, utc |-> datetime.utc]

\* The AssessmentResultResponse the three read methods build from a document
\* (lines 97-109, 120-132, 142-154): .get() defaults for descriptive_scores
\* and domain_ratings.
ResultResponseOf(result) ==
    [id                 |-> ToString(result._id),
     user_data          |-> result.user_data,
     domain_scores      |-> result.domain_scores,
     descriptive_scores |-> IF "descriptive_scores" \in DOMAIN result
                            THEN result.descriptive_scores ELSE <<>>,
     total_score        |-> result.total_score,
     overall_rating     |-> result.overall_rating,
     domain_ratings     |-> IF "domain_ratings" \in DOMAIN result
                            THEN result.domain_ratings ELSE <<>>,
     started_at         |-> StoredDatetime(result.started_at),
     completed_at       |-> StoredDatetime(result.completed_at),
     total_time_minutes |-> result.total_time_minutes,
     created_at         |-> result.created_at]

\* Mutant of AssessmentService_get_assessment_result: no try/except around
\* the conversion of the id.
AssessmentService_get_assessment_result_NoExcept(assessment_id) ==
    LET oid == ObjectId(assessment_id)
        found == {n \in 1..Len(results) : [oid |-> results[n]._id] = oid}
    IN IF IsRaised(oid) THEN oid
       ELSE IF found = {} THEN None
       ELSE ResultResponseOf(results[CHOOSE n \in found : TRUE])

\* AssessmentService.get_assessment_result (lines 90-111): whatever is raised
\* inside the try, by ObjectId() first of all, ends in None.
AssessmentService_get_assessment_result(assessment_id) ==
    LET oid == ObjectId(assessment_id)
        found == {n \in 1..Len(results) : [oid |-> results[n]._id] = oid}
    IN IF IsRaised(oid) THEN None
       ELSE IF found = {} THEN None
       ELSE ResultResponseOf(results[CHOOSE n \in found : TRUE])

\* The answer of GET /assessment/results/{assessment_id}: 404 when the
\* service returns None; an exception out of the service would be a 500.
NotFound == [detail |-> "Assessment result not found"]

get_assessment_result(assessment_id) ==
    LET result == AssessmentService_get_assessment_result(assessment_id)
    IN IF IsRaised(result) THEN [status_code |-> 500, body |-> result]
       ELSE IF result = None THEN [status_code |-> 404, body |-> NotFound]
       ELSE [status_code |-> 200, body |-> result]

\* find().sort("created_at", -1): the documents, latest created_at first.
SortedByCreatedAtDescending(docs) ==
    LET n == Len(docs)
        order == CHOOSE f \in [1..n -> 1..n] :
                    /\ \A i \in 1..n, j \in 1..n : f[i] = f[j] => i = j
                    /\ \A i \in 1..(n - 1) :
                          docs[f[i]].created_at >= docs[f[i + 1]].created_at
    IN [i \in 1..n |-> docs[order[i]]]

\* AssessmentService.get_all_assessment_results (lines 113-133).
AssessmentService_get_all_assessment_results ==
    LET found == SortedByCreatedAtDescending(results)
    IN [i \in 1..Len(found) |-> ResultResponseOf(found[i])]

\* AssessmentService.get_assessment_results_by_email (lines 135-155): the
\* documents whose user_data has this email.
AssessmentService_get_assessment_results_by_email(email) ==
    LET found == SortedByCreatedAtDescending(
                    SelectSeq(results, LAMBDA doc : /\ "email" \in DOMAIN doc.user_data
                                                    /\ doc.user_data.email = email))
    IN [i \in 1..Len(found) |-> ResultResponseOf(found[i])]

\* The quotient num / den that $avg computes, kept exact.
Average(num, den) == [num |-> num, den |-> den]

\* AssessmentService.get_overall_statistics (lines 157-177): the one group
\* of the pipeline, or the zeros when the collection is empty.
get_overall_statistics ==
    LET n == Len(results)
    IN IF n = 0
       THEN [total_assessments |-> 0,
             avg_total_score   |-> Average(0, 1),
             avg_time_minutes  |-> Average(0, 1)]
       ELSE [_id               |-> None,
             total_assessments |-> n,
             avg_total_score   |->
                 Average(SumRange([i \in 1..n |-> results[i].total_score], 1, n), n),
             avg_time_minutes  |->
                 Average(SumRange([i \in 1..n |-> results[i].total_time_minutes], 1, n), n)]

\* AssessmentService.get_domain_analysis (lines 179-209): how often each
\* value was given in the stored responses of the domain, by value, and the
\* average of the domain's score.
get_domain_analysis(domain) ==
    LET n == Len(results)
        count(v) ==
            SumRange([i \in 1..n |->
                         Cardinality({k \in 1..Len(results[i].responses) :
                                         /\ results[i].responses[k].domain = domain
                                         /\ results[i].responses[k].response = v})],
                     1, n)
        values == SelectSeq([v \in 1..6 |-> v - 1], LAMBDA v : count(v) > 0)
        known == {i \in 1..n : domain \in DOMAIN results[i].domain_scores}
    IN [domain                |-> domain,
        response_distribution |->
            [k \in 1..Len(values) |->
                [_id |-> values[k], count |-> count(values[k]),
                 total_responses |-> count(values[k])]],
        average_score         |->
            IF n = 0 THEN Average(0, 1)
            ELSE IF known = {} THEN None
            ELSE Average(SumRange([i \in 1..n |->
                                      IF i \in known THEN results[i].domain_scores[domain]
                                      ELSE 0], 1, n),
                         Cardinality(known)),
        total_assessments     |-> n]

\* The request bodies submitted while the store is being read.
StoreSubmissions ==
    {b \in Submissions :
        b.responses \in {ClientComplete(Uniform(50), 3, 3),
                         ClientComplete(Uniform(10), 0, 0),
                         ClientComplete(Uniform(52), 1, 2)}}

StoreRuns == {run \in HandlerRuns : run.after.submission \in StoreSubmissions}

\* The ids asked for: well-formed ones, stored or not, and malformed ones.
AssessmentIds == {ToString(n) : n \in 1..(MaxResults + 1)} \cup {"01", "abc", ""}

\* The emails the results are listed for.
Emails == {"ana@example.com", "ben@example.com", "cy@example.com"}

\* A read operation, answered from the store as it is at the await of the
\* operation; the answer stays in read_out until it is delivered.
ReadResult(assessment_id) ==
    /\ read_out = NoRead
    /\ read_out' = [op |-> "get_assessment_result", arg |-> assessment_id,
                    answer |-> get_assessment_result(assessment_id)]
    /\ UNCHANGED notRead

ReadAll ==
    /\ read_out = NoRead
    /\ read_out' = [op |-> "get_all_assessment_results", arg |-> "",
                    answer |-> AssessmentService_get_all_assessment_results]
    /\ UNCHANGED notRead

ReadByEmail(email) ==
    /\ read_out = NoRead
    /\ read_out' = [op |-> "get_assessment_results_by_email", arg |-> email,
                    answer |-> AssessmentService_get_assessment_results_by_email(email)]
    /\ UNCHANGED notRead

ReadStatistics ==
    /\ read_out = NoRead
    /\ read_out' = [op |-> "get_overall_statistics", arg |-> "",
                    answer |-> get_overall_statistics]
    /\ UNCHANGED notRead

ReadDomainAnalysis(domain) ==
    /\ read_out = NoRead
    /\ read_out' = [op |-> "get_domain_analysis", arg |-> domain,
                    answer |-> get_domain_analysis(domain)]
    /\ UNCHANGED notRead

\* The answer has been delivered.
ReadDone ==
    /\ read_out # NoRead
    /\ read_out' = NoRead
    /\ UNCHANGED notRead

NextStore ==
    \/ \E s \in Slots :
          \/ \E run \in StoreRuns : SubmitBegin(s, run)
          \/ SubmitInsert(s)
          \/ Close(s)
    \/ \E assessment_id \in AssessmentIds : ReadResult(assessment_id)
    \/ ReadAll
    \/ \E email \in Emails : ReadByEmail(email)
    \/ ReadStatistics
    \/ \E domain \in {"leadership", "teamwork"} : ReadDomainAnalysis(domain)
    \/ ReadDone

SpecStore == Init /\ [][NextStore]_vars

-----------------------------------------------------------------------------
(* Accounts: POST /auth/register, /auth/admin/register and /auth/login.     *)

\* Accounts ever created.
MaxUsers == 2

\* The request bodies (src/app/schemas/auth.py).  UserCreate has no password
\* and no username; UserLogin has no email.
UserCreate(full_name, email) ==
    [full_name |-> full_name, email |-> email,
     phone |-> None, company |-> None, position |-> None]

AdminUserCreate(username, full_name, password, email) ==
    [username |-> username, full_name |-> full_name, password |-> password,
     email |-> email, company |-> None, position |-> None]

UserLogin(username, password) == [username |-> username, password |-> password]

UserBodies ==
    {UserCreate("Ana", "ana@example.com"), UserCreate("Cy", "cy@example.com")}

\* Two bodies with the same username, two with the same email.
AdminBodies ==
    {AdminUserCreate("root", "Ana", "pw1", "ana@example.com"),
     AdminUserCreate("root", "Ben", "pw2", "ben@example.com"),
     AdminUserCreate("ops", "Ana", "pw3", "ana@example.com")}

LoginBodies ==
    {UserLogin("root", "pw1"), UserLogin("ana@example.com", "pw1"),
     UserLogin("root", "wrong")}

\* ValueError(detail), and what the two handlers make of it (lines 39-43 and
\* 69-73): status 400 with the text of the error; any other exception leaves
\* the handler and is answered 500.
ValueError(detail) == [raised |-> "ValueError", detail |-> detail]

Answered(outcome) ==
    IF ~IsRaised(outcome) THEN [status_code |-> 200, body |-> outcome]
    ELSE IF outcome.raised = "ValueError"
    THEN [status_code |-> 400, body |-> [detail |-> outcome.detail]]
    ELSE [status_code |-> 500, body |-> outcome]

\* collection.find_one({field: value}): the first document having the field
\* with this value, or None.
find_one(collection, field, value) ==
    LET found == {n \in 1..Len(collection) :
                     /\ field \in DOMAIN collection[n]
                     /\ collection[n][field] = value}
    IN IF found = {} THEN None
       ELSE collection[CHOOSE n \in found : \A k \in found : n <= k]

\* pwd_context.hash(password), as the password it is the hash of.
get_password_hash(password) == [bcrypt |-> password]

\* user_dict as create_user / create_admin_user build it between the last
\* find_one and insert_one (lines 27-33 and 51-57): reading the password of
\* a body that has none raises AttributeError.  The two clock readings
\* created_at and updated_at, which no handler reads back, are left out.
user_dict(user_data, role) ==
    IF "password" \notin DOMAIN user_data THEN Raised("AttributeError")
    ELSE [k \in DOMAIN user_data \cup {"hashed_password", "role"} |->
             IF k = "hashed_password" THEN get_password_hash(user_data.password)
             ELSE IF k = "role" THEN role
             ELSE user_data[k]]

\* A key of a document, or the default UserModel has for the field.
FieldOf(user, key, default) == IF key \in DOMAIN user THEN user[key] ELSE default

\* UserModel(**user_dict) turned into the UserResponse the handlers return
\* (lines 23-38 and 53-68).
UserResponseOf(user) ==
    [id                   |-> ToString(user._id),
     full_name            |-> user.full_name,
     email                |-> user.email,
     phone                |-> FieldOf(user, "phone", None),
     company              |-> FieldOf(user, "company", None),
     position             |-> FieldOf(user, "position", None),
     is_active            |-> FieldOf(user, "is_active", TRUE),
     is_verified          |-> FieldOf(user, "is_verified", FALSE),
     assessment_completed |-> FieldOf(user, "assessment_completed", FALSE),
     role                 |-> FieldOf(user, "role", "user")]

\* The document insert_one writes: user_dict with its _id.
UserDocument(inserted_id, dict) ==
    [k \in DOMAIN dict \cup {"_id"} |-> IF k = "_id" THEN inserted_id ELSE dict[k]]

\* A request answered: the slot holds the answer until it is delivered.
Responded(request, answer) ==
    [pc |-> "responded", kind |-> request.kind, user_data |-> request.user_data,
     status_code |-> answer.status_code, body |-> answer.body]

\* What a caller sends as Authorization: nothing, or a bearer token.  Of a
\* token the model keeps its sub claim and whether jwt.decode accepts it
\* (signed with jwt_secret_key and not expired), whoever made it.
NoCredentials == [scheme |-> "none"]
Bearer(token) == [scheme |-> "bearer", credentials |-> token]

\* The Authorization of the callers of /auth/admin/register: none, a token
\* that does not verify, and a token that verifies and names account 1.
RegisterCredentials ==
    {NoCredentials,
     Bearer([signed |-> FALSE, sub |-> "1"]),
     Bearer([signed |-> TRUE, sub |-> "1"])}

\* Registrations under way that may still insert an account.
Registering ==
    {s \in DOMAIN auth : auth[s].pc \in {"find_one_username", "find_one_email", "insert_one"}}

\* POST /auth/register arrives: create_user awaits find_one by email
\* (line 23).
RegisterBegin(s, user_data) ==
    /\ auth[s].pc = "idle"
    /\ auth' = [auth EXCEPT ![s] =
                   [pc |-> "find_one_email", kind |-> "register", user_data |-> user_data]]
    /\ UNCHANGED <<users, notAuth>>

\* POST /auth/admin/register arrives with whatever Authorization header the
\* caller sent: the handler (src/app/api/auth.py lines 45-46) takes the body
\* alone and has no dependency that looks at the caller, so the credentials
\* travel with the request and nothing reads them.  create_admin_user
\* awaits find_one by username (line 42).
RegisterAdminBegin(s, user_data, credentials) ==
    /\ auth[s].pc = "idle"
    /\ Len(users) + Cardinality(Registering) < MaxUsers
    /\ auth' = [auth EXCEPT ![s] =
                   [pc |-> "find_one_username", kind |-> "register_admin",
                    user_data |-> user_data, credentials |-> credentials]]
    /\ UNCHANGED <<users, notAuth>>

\* Mutant of FindOneUsername: the result of the lookup is not looked at.
FindOneUsername_NoCheck(s) ==
    /\ auth[s].pc = "find_one_username"
    /\ auth' = [auth EXCEPT ![s].pc = "find_one_email"]
    /\ UNCHANGED <<users, notAuth>>

\* find_one by username answers (lines 42-44): a document found ends the
\* request with "Username already taken"; else find_one by email is awaited.
FindOneUsername(s) ==
    /\ auth[s].pc = "find_one_username"
    /\ auth' = [auth EXCEPT ![s] =
                   IF find_one(users, "username", auth[s].user_data.username) # None
                   THEN Responded(auth[s], Answered(ValueError("Username already taken")))
                   ELSE [auth[s] EXCEPT !.pc = "find_one_email"]]
    /\ UNCHANGED <<users, notAuth>>

\* find_one by email answers (lines 23-25 and 47-49): a document found ends
\* the request with "Email already registered"; else user_dict is built,
\* which for a UserCreate body raises AttributeError, and insert_one is
\* awaited.
FindOneEmail(s) ==
    /\ auth[s].pc = "find_one_email"
    /\ LET dict == user_dict(auth[s].user_data,
                             IF auth[s].kind = "register" THEN "user" ELSE "admin")
       IN auth' = [auth EXCEPT ![s] =
                     IF find_one(users, "email", auth[s].user_data.email) # None
                     THEN Responded(auth[s], Answered(ValueError("Email already registered")))
                     ELSE IF IsRaised(dict) THEN Responded(auth[s], Answered(dict))
                     ELSE [auth[s] EXCEPT !.pc = "insert_one"] @@ [user_dict |-> dict]]
    /\ UNCHANGED <<users, notAuth>>

\* insert_one completes (lines 35-37 and 59-61): the account is in the
\* collection under a fresh _id and the handler returns its UserResponse.
InsertOne(s) ==
    /\ auth[s].pc = "insert_one"
    /\ LET user == UserDocument(Len(users) + 1, auth[s].user_dict)
       IN /\ users' = Append(users, user)
          /\ auth' = [auth EXCEPT ![s] = Responded(auth[s], Answered(UserResponseOf(user)))]
    /\ UNCHANGED notAuth

\* POST /auth/login, the whole handler: evaluating user_credentials.email
\* (line 82) raises AttributeError, UserLogin having no such field, before
\* anything is awaited; no token is ever created.
login(user_credentials) ==
    IF "email" \notin DOMAIN user_credentials THEN Answered(Raised("AttributeError"))
    ELSE LET user == find_one(users, "email", user_credentials.email)
         IN IF user = None \/ user.hashed_password # get_password_hash(user_credentials.password)
            THEN [status_code |-> 401, body |-> [detail |-> "Incorrect username or password"]]
            ELSE [status_code |-> 200,
                  body |-> [access_token  |-> [signed |-> TRUE, sub |-> ToString(user._id)],
                            refresh_token |-> [signed |-> TRUE, sub |-> ToString(user._id)],
                            token_type    |-> "bearer"]]

Login(s, user_credentials) ==
    /\ auth[s].pc = "idle"
    /\ auth' = [auth EXCEPT ![s] =
                   Responded([kind |-> "login", user_data |-> user_credentials],
                             login(user_credentials))]
    /\ UNCHANGED <<users, notAuth>>

\* The answer has been delivered; the slot takes the next request.
AuthClose(s) ==
    /\ auth[s].pc = "responded"
    /\ auth' = [auth EXCEPT ![s] = Idle]
    /\ UNCHANGED <<users, notAuth>>

\* What one slot can do.
AuthStep(s) ==
    \/ \E user_data \in UserBodies : RegisterBegin(s, user_data)
    \/ \E user_data \in AdminBodies, credentials \in RegisterCredentials :
          RegisterAdminBegin(s, user_data, credentials)
    \/ FindOneUsername(s)
    \/ FindOneEmail(s)
    \/ InsertOne(s)
    \/ \E user_credentials \in LoginBodies : Login(s, user_credentials)
    \/ AuthClose(s)

InitRegister ==
    /\ responses_in = <<>>
    /\ score_out = NoScoreOut
    /\ results = <<>>
    /\ req = <<>>
    /\ questions_out = <<>>
    /\ lookup_out = NoLookup
    /\ read_out = NoRead
    /\ users = <<>>
    /\ auth = [s \in Slots |-> Idle]

NextRegister == \E s \in Slots : AuthStep(s)

SpecRegister == InitRegister /\ [][NextRegister]_vars

-----------------------------------------------------------------------------
(* The result listings behind the bearer token.                             *)

\* The Authorization of the callers of the listings.
Credentials ==
    {NoCredentials}
    \cup {Bearer([signed |-> signed, sub |-> sub]) :
             signed \in BOOLEAN, sub \in {"1", "2", "abc"}}

\* A refusal: HTTPException(status_code, detail).
HTTPException(status_code, detail) ==
    [raised |-> "HTTPException", status_code |-> status_code, detail |-> detail]

\* Mutant of verify_token: the claims are read without verifying the token.
verify_token_Unverified(token) == [sub |-> token.sub]

\* verify_token (src/app/utils/auth.py lines 37-43): the payload, or None
\* when jwt.decode raises JWTError.
verify_token(token) == IF token.signed THEN [sub |-> token.sub] ELSE None

\* UserService.get_user_by_id (lines 71-77): None for an id that is not
\* well-formed or that no account has.
get_user_by_id(user_id) ==
    LET oid == ObjectId(user_id)
    IN IF IsRaised(oid) THEN None ELSE find_one(users, "_id", oid.oid)

\* get_current_user (src/app/api/deps.py lines 9-32), HTTPBearer first: the
\* account of the token's sub, or the refusal.
get_current_user(credentials) ==
    IF credentials.scheme # "bearer" THEN HTTPException(403, "Not authenticated")
    ELSE LET payload == verify_token(credentials.credentials)
         IN IF payload = None THEN HTTPException(401, "Could not validate credentials")
            ELSE IF get_user_by_id(payload.sub) = None
            THEN HTTPException(401, "User not found")
            ELSE get_user_by_id(payload.sub)

\* get_current_active_user (lines 34-41).
get_current_active_user(credentials) ==
    LET current_user == get_current_user(credentials)
    IN IF IsRaised(current_user) THEN current_user
       ELSE IF ~FieldOf(current_user, "is_active", TRUE)
       THEN HTTPException(400, "Inactive user")
       ELSE current_user

\* get_current_admin_user (lines 43-46).
get_current_admin_user(credentials) ==
    LET current_user == get_current_user(credentials)
    IN IF IsRaised(current_user) THEN current_user
       ELSE IF FieldOf(current_user, "role", "user") # "admin"
       THEN HTTPException(403, "Admin access required")
       ELSE current_user

\* The answer to a request a dependency or the handler refused.
Refusal(exception) ==
    [status_code |-> exception.status_code, body |-> [detail |-> exception.detail]]

\* GET /assessment/admin/results (src/app/api/assessment.py lines 88-99).
get_all_assessment_results(credentials) ==
    LET current_user == get_current_active_user(credentials)
    IN IF IsRaised(current_user) THEN Refusal(current_user)
       ELSE IF FieldOf(current_user, "role", "user") # "admin"
       THEN Refusal(HTTPException(403, "Admin access required"))
       ELSE [status_code |-> 200, body |-> AssessmentService_get_all_assessment_results]

\* GET /assessment/admin/results/{user_email} (lines 101-112).
get_user_assessment_results(user_email, credentials) ==
    LET current_user == get_current_active_user(credentials)
    IN IF IsRaised(current_user) THEN Refusal(current_user)
       ELSE IF FieldOf(current_user, "role", "user") # "admin"
       THEN Refusal(HTTPException(403, "Admin access required"))
       ELSE [status_code |-> 200,
             body |-> AssessmentService_get_assessment_results_by_email(user_email)]

\* GET /admin/users/{user_id}/assessments (src/app/api/admin.py lines
\* 46-68): the documents whose user_id is the one asked for; for each, an
\* AssessmentResultResponse without user_data and descriptive_scores, which
\* pydantic refuses to build.
get_user_assessments(user_id, credentials) ==
    LET admin_user == get_current_admin_user(credentials)
        found == SelectSeq(results, LAMBDA r : /\ "user_id" \in DOMAIN r
                                              /\ r.user_id = user_id)
    IN IF IsRaised(admin_user) THEN Refusal(admin_user)
       ELSE IF found # <<>> THEN [status_code |-> 500, body |-> Raised("ValidationError")]
       ELSE [status_code |-> 200, body |-> <<>>]

\* The three listings, each answered from the two collections as they are;
\* the answer stays in read_out until it is delivered.
ListAll(credentials) ==
    /\ read_out = NoRead
    /\ read_out' = [op |-> "get_all_assessment_results", arg |-> "",
                    credentials |-> credentials,
                    answer |-> get_all_assessment_results(credentials)]
    /\ UNCHANGED notRead

ListByEmail(user_email, credentials) ==
    /\ read_out = NoRead
    /\ read_out' = [op |-> "get_user_assessment_results", arg |-> user_email,
                    credentials |-> credentials,
                    answer |-> get_user_assessment_results(user_email, credentials)]
    /\ UNCHANGED notRead

ListUserAssessments(user_id, credentials) ==
    /\ read_out = NoRead
    /\ read_out' = [op |-> "get_user_assessments", arg |-> user_id,
                    credentials |-> credentials,
                    answer |-> get_user_assessments(user_id, credentials)]
    /\ UNCHANGED notRead

\* The one request body submitted while the listings are tried.
AuthRuns ==
    {run \in HandlerRuns :
        run.after.submission.responses = ClientComplete(Uniform(10), 0, 0)}

\* Submissions and registrations one at a time, and the listings.
NextAuth ==
    \/ \E run \in AuthRuns : SubmitBegin(1, run)
    \/ SubmitInsert(1)
    \/ Close(1)
    \/ AuthStep(1)
    \/ \E credentials \in Credentials :
          \/ ListAll(credentials)
          \/ ListByEmail("ben@example.com", credentials)
          \/ ListUserAssessments("1", credentials)
    \/ ReadDone

SpecAuth == Init /\ [][NextAuth]_vars

-----------------------------------------------------------------------------
(* Properties of the validator and the scorer, checked under SpecScore.     *)

\* Positions of responses_in holding an mcq (non-descriptive id) response,
\* and a descriptive one.
McqAt == {i \in 1..Len(responses_in) : responses_in[i].question_id \notin DescriptiveIds}
DescAt == {i \in 1..Len(responses_in) : responses_in[i].question_id \in DescriptiveIds}

CountsAsRequired == Cardinality(McqAt) = 70 /\ Cardinality(DescAt) = 2

DomainsAsRequired ==
    {responses_in[i].domain : i \in McqAt} =
        {"leadership", "accountability", "communication", "innovation",
         "sales", "ethics", "collaboration"}

ValuesInRange ==
    /\ \A i \in McqAt : responses_in[i].response \in 1..5
    /\ \A i \in DescAt : responses_in[i].response \in 0..3

Ratings == <<"critical", "weakness", "developing", "strength", "exemplary">>

\* The place of a rating in the order critical < ... < exemplary.
Rank(rating) == CHOOSE k \in 1..Len(Ratings) : Ratings[k] = rating

\* C2: for a validated list whose seven domain scores all equal one value s
\* in 10..50, the overall rating is the rating of every domain; all answers 5
\* give "exemplary", all answers 1 give "critical".
C2_OverallOnDomainScale ==
    (/\ score_out.validated /\ score_out.valid /\ score_out.scored
     /\ \E sc \in 10..50 : \A d \in DOMAIN score_out.score.domain_scores :
            score_out.score.domain_scores[d] = sc)
    => /\ \A d \in DOMAIN score_out.score.domain_ratings :
              score_out.score.overall_rating = score_out.score.domain_ratings[d]
       /\ (\A i \in McqAt : responses_in[i].response = 5)
              => score_out.score.overall_rating = "exemplary"
       /\ (\A i \in McqAt : responses_in[i].response = 1)
              => score_out.score.overall_rating = "critical"

\* C3: a list with exactly 70 mcq responses valued 1..5, exactly 2
\* descriptive responses valued 0..3 and mcq domains equal to the seven
\* domains is accepted by validate_responses.
C3_CompleteIsValid ==
    (score_out.validated /\ CountsAsRequired /\ DomainsAsRequired /\ ValuesInRange)
        => score_out.valid

C3_Witness ==
    /\ score_out.validated /\ CountsAsRequired /\ DomainsAsRequired /\ ValuesInRange
    /\ \E i \in DescAt : responses_in[i].response = 0
    /\ \E i \in McqAt : responses_in[i].response = 5
    /\ score_out.valid

\* C4: a list whose set of mcq domains differs from the seven domains (one
\* missing, or an unexpected name) is refused, whatever its counts and values.
C4_DomainSetMustMatch ==
    (score_out.validated /\ ~DomainsAsRequired) => ~score_out.valid

\* An unexpected domain name on top of the seven, counts and values in order.
C4_Witness ==
    /\ score_out.validated /\ ~score_out.valid
    /\ CountsAsRequired /\ ValuesInRange
    /\ {"leadership", "accountability", "communication", "innovation",
        "sales", "ethics", "collaboration"} \subseteq {responses_in[i].domain : i \in McqAt}
    /\ \E i \in McqAt : responses_in[i].domain = "teamwork"

\* C5: a list that does not hold exactly 70 mcq responses and exactly 2
\* descriptive responses is refused (the empty list and lists with extra
\* responses included).
C5_CountsMustMatch ==
    (score_out.validated /\ ~CountsAsRequired) => ~score_out.valid

\* One mcq response too many, everything else in order.
C5_Witness ==
    /\ score_out.validated /\ ~score_out.valid
    /\ Cardinality(McqAt) = 71 /\ Cardinality(DescAt) = 2
    /\ DomainsAsRequired /\ ValuesInRange

\* C6: with counts and domains in order, a list is accepted exactly when
\* every mcq value is in 1..5 and every descriptive value in 0..3, both ends
\* included; any value outside its range makes validate_responses refuse.
C6_RangesInclusive ==
    /\ (score_out.validated /\ ~ValuesInRange) => ~score_out.valid
    /\ (score_out.validated /\ CountsAsRequired /\ DomainsAsRequired)
          => (score_out.valid <=> ValuesInRange)

\* A descriptive answer of 4 among otherwise acceptable responses.
C6_Witness ==
    /\ score_out.validated /\ ~score_out.valid
    /\ CountsAsRequired /\ DomainsAsRequired
    /\ \A i \in McqAt : responses_in[i].response \in 1..5
    /\ \E i \in DescAt : responses_in[i].response = 4
    /\ \E i \in DescAt : responses_in[i].response \in 0..3

\* C7: every domain score gets one of the five ratings, with the band edges
\* 44, 36, 28, 20 exactly as listed, and the rating never gets better as the
\* score goes down: not from one score to the next lower one, and not
\* between two domains of the same result.
C7_BandEdgesAndMonotone ==
    score_out.scored =>
        \A d \in DOMAIN score_out.score.domain_scores :
            LET sc == score_out.score.domain_scores[d]
                rating == score_out.score.domain_ratings[d]
            IN /\ \E k \in 1..Len(Ratings) : Ratings[k] = rating
               /\ sc = 44 => rating = "exemplary"
               /\ sc \in {43, 36} => rating = "strength"
               /\ sc \in {35, 28} => rating = "developing"
               /\ sc \in {27, 20} => rating = "weakness"
               /\ sc = 19 => rating = "critical"
               /\ Rank(get_rating_for_score(sc - 1)) <= Rank(rating)
               /\ Rank(rating) <= Rank(get_rating_for_score(sc + 1))
               /\ \A e \in DOMAIN score_out.score.domain_scores :
                     score_out.score.domain_scores[e] <= sc
                        => Rank(score_out.score.domain_ratings[e]) <= Rank(rating)

\* Two domains on either side of the edge at 44.
C7_Witness ==
    /\ score_out.scored
    /\ \E d, e \in DOMAIN score_out.score.domain_scores :
          /\ score_out.score.domain_scores[d] = 43
          /\ score_out.score.domain_ratings[d] = "strength"
          /\ score_out.score.domain_scores[e] = 44
          /\ score_out.score.domain_ratings[e] = "exemplary"

\* responses with the value of every response to question q set to value.
WithValue(responses, q, value) ==
    [i \in 1..Len(responses) |->
        IF responses[i].question_id = q
        THEN [responses[i] EXCEPT !.response = value]
        ELSE responses[i]]

\* C9: the descriptive responses add nothing to any domain score: each
\* domain score is the sum of the mcq-id responses of that domain, and
\* changing the value of a descriptive response changes no domain score, no
\* total and no rating.
C9_DescriptiveNotScored ==
    score_out.scored =>
        /\ \A d \in DOMAIN score_out.score.domain_scores :
              score_out.score.domain_scores[d] =
                  SumRange([i \in 1..Len(responses_in) |->
                               IF i \in McqAt /\ responses_in[i].domain = d
                               THEN responses_in[i].response ELSE 0],
                           1, Len(responses_in))
        /\ \A q \in DescriptiveIds, value \in DescValues :
              LET other == ScoreOf(WithValue(responses_in, q, value))
              IN /\ other.domain_scores = score_out.score.domain_scores
                 /\ other.total_score = score_out.score.total_score
                 /\ other.overall_rating = score_out.score.overall_rating
                 /\ other.domain_ratings = score_out.score.domain_ratings

\* Descriptive answers of 3, tagged "collaboration", next to ten
\* collaboration answers of 1.
C9_Witness ==
    /\ score_out.scored
    /\ \A i \in DescAt : responses_in[i].response = 3 /\ responses_in[i].domain = "collaboration"
    /\ Cardinality(DescAt) = 2
    /\ score_out.score.domain_scores["collaboration"] = 10

-----------------------------------------------------------------------------
(* Properties of the submit handler and the store, checked under Spec.      *)

CatalogIds == {AllQuestions[n].id : n \in 1..NumQuestions}

\* The catalog entry with the id q.
CatalogEntry(q) == AllQuestions[CHOOSE n \in 1..NumQuestions : AllQuestions[n].id = q]

\* The responses of a request body that name a catalog question, each with
\* the catalog's domain and type for its id.
CatalogResolved(responses) ==
    LET known == SelectSeq(responses, LAMBDA r : r.question_id \in CatalogIds)
    IN [k \in 1..Len(known) |->
          [question_id   |-> known[k].question_id,
           response      |-> known[k].response,
           domain        |-> CatalogEntry(known[k].question_id).domain,
           question_type |-> CatalogEntry(known[k].question_id).type]]

\* The requests being handled.
Busy == {s \in Slots : req[s].pc # "idle"}

\* Every request body with its responses resolved against the catalog.
ResolvedBodies ==
    {[body |-> b, responses |-> CatalogResolved(b.responses)] : b \in Submissions}

\* The request bodies whose resolved responses pass the validator.
ValidBodies == {rb.body : rb \in {x \in ResolvedBodies : validate_responses(x.responses)}}

\* The resolved responses that pass the validator, each with its scores.
ValidatedAndScored ==
    {[responses          |-> rb.responses,
      domain_scores      |-> calculate_domain_scores(rb.responses),
      descriptive_scores |-> calculate_descriptive_scores(rb.responses),
      total_score        |->
          SumValues(calculate_domain_scores(rb.responses), DOMAIN ZeroDomainScores)] :
        rb \in {x \in ResolvedBodies : validate_responses(x.responses)}}

\* A result document (or the result_data about to become one) holds
\* responses that pass validation, and the scores of those responses.
IsValidatedAndScored(doc) ==
    [responses          |-> doc.responses,
     domain_scores      |-> doc.domain_scores,
     descriptive_scores |-> doc.descriptive_scores,
     total_score        |-> doc.total_score] \in ValidatedAndScored

\* C1, in every state: whatever is stored or about to be stored comes from
\* responses that passed validation and carries their scores; what is about
\* to be stored for a request is made of that request's own responses; a
\* request whose responses fail validation is never stored nor answered with
\* success.
C1_StoredIsValidated ==
    /\ \A n \in 1..Len(results) : IsValidatedAndScored(results[n])
    /\ \A s \in Busy :
          /\ req[s].pc = "inserting" =>
                /\ IsValidatedAndScored(req[s].result_data)
                /\ [body |-> req[s].submission,
                    responses |-> req[s].result_data.responses] \in ResolvedBodies
                /\ req[s].submission \in ValidBodies
          /\ req[s].submission \notin ValidBodies =>
                req[s].pc = "responded" /\ req[s].status_code \in {400, 500}

\* C1, in every step: a request that is refused leaves the store exactly as
\* it was, and the store changes only by the insert of a request that had
\* been validated and scored before.
C1_StepsInOrder ==
    /\ \A s \in Slots :
          (req[s].pc = "idle" /\ req'[s].pc = "responded") => results' = results
    /\ results' # results =>
          \E s \in Slots :
             /\ req[s].pc = "inserting"
             /\ IsValidatedAndScored(req[s].result_data)
             /\ results' = Append(results, StoredDocument(Len(results) + 1, req[s].result_data))
             /\ req'[s].pc = "responded" /\ req'[s].status_code = 200

\* C1: a result is persisted only after its submission's responses passed
\* validation and were scored; a submission that fails validation is
\* reported as rejected and leaves the store exactly as it was.
C1_PersistOnlyAfterValidation == []C1_StoredIsValidated /\ [][C1_StepsInOrder]_vars

\* A refusal for invalid responses, next to a store that holds a result.
C1_Witness ==
    /\ Len(results) >= 1
    /\ \E s \in Slots :
          /\ req[s].pc = "responded"
          /\ req[s].status_code = 400
          /\ req[s].body = InvalidResponses
          /\ req[s].submission \notin ValidBodies

\* The result documents in the store, the result_data waiting on the insert
\* and the bodies of the successful answers.
ScoredRecords ==
    {results[n] : n \in 1..Len(results)}
    \cup {req[s].result_data : s \in {x \in Slots : req[x].pc = "inserting"}}
    \cup {req[s].body : s \in {x \in Slots : req[x].pc = "responded" /\ req[x].status_code = 200}}

\* C8: wherever the scorer has run (a stored document, a result about to be
\* stored, a returned result), domain_scores has exactly the seven domain
\* names as keys and total_score is the sum of the seven values.
C8_SevenDomainsAndTotal ==
    \A rec \in ScoredRecords :
        /\ DOMAIN rec.domain_scores =
              {"leadership", "accountability", "communication", "innovation",
               "sales", "ethics", "collaboration"}
        /\ rec.total_score =
              rec.domain_scores["leadership"] + rec.domain_scores["accountability"]
              + rec.domain_scores["communication"] + rec.domain_scores["innovation"]
              + rec.domain_scores["sales"] + rec.domain_scores["ethics"]
              + rec.domain_scores["collaboration"]

\* A stored result whose seven domain scores differ (10, 19, 20, 28, 36, 44
\* and 50 add up to 207).
C8_Witness ==
    \E n \in 1..Len(results) :
        /\ results[n].total_score = 207
        /\ results[n].domain_scores["leadership"] = 10
        /\ results[n].domain_scores["collaboration"] = 50

\* C8 for the scorer alone (SpecScore): on any list of responses, valid or
\* not, the seven keys are there and the total is their sum.
C8_ScorerAlone ==
    score_out.scored =>
        /\ DOMAIN score_out.score.domain_scores =
              {"leadership", "accountability", "communication", "innovation",
               "sales", "ethics", "collaboration"}
        /\ score_out.score.total_score =
              SumRange([k \in 1..Len(DomainOrder) |->
                           score_out.score.domain_scores[DomainOrder[k]]],
                       1, Len(DomainOrder))

\* A request body with a response whose question_id is in no catalog entry.
HasUnknownId(submission) ==
    \E i \in 1..Len(submission.responses) :
        submission.responses[i].question_id \notin CatalogIds

\* C10: a submission with a response whose question_id is not in the catalog
\* is refused as a validation failure and nothing of it is stored, whatever
\* its other responses are.
C10_UnknownIdRejected ==
    \A s \in Busy :
        HasUnknownId(req[s].submission) =>
            /\ req[s].pc = "responded"
            /\ req[s].status_code = 400
            /\ req[s].body = InvalidResponses

-----------------------------------------------------------------------------
(* Elapsed minutes and the range of the domain scores.                      *)

\* The largest integer m with 60 * m <= seconds.
FloorMinutes(seconds) ==
    CHOOSE m \in -60..60 : 60 * m <= seconds /\ seconds < 60 * (m + 1)

\* The seconds between the two instants of a stored document.
ElapsedSeconds(doc) ==
    IF doc.completed_at.aware THEN doc.completed_at.utc - doc.started_at.utc
    ELSE doc.completed_at.secs - doc.started_at.secs

\* C19: for every stored result, total_time_minutes is the floor of the
\* seconds from started_at to completed_at divided by 60.
C19_MinutesAreFloor ==
    \A n \in 1..Len(results) :
        results[n].total_time_minutes = FloorMinutes(ElapsedSeconds(results[n]))

\* C20: for every list of responses that passes validation, each of the
\* seven domain scores lies in 10..50 and total_score in 70..350, so each
\* domain rating is the band of a score on the 10-50 scale.
C20_DomainScoresInRange ==
    (score_out.validated /\ score_out.valid /\ score_out.scored) =>
        /\ \A d \in DOMAIN score_out.score.domain_scores :
              /\ score_out.score.domain_scores[d] \in 10..50
              /\ score_out.score.domain_ratings[d] =
                    get_rating_for_score(score_out.score.domain_scores[d])
        /\ score_out.score.total_score \in 70..350

-----------------------------------------------------------------------------
(* Client-supplied domain and question_type.                                *)

\* A request body without the domain and question_type of its responses.
WithoutClientFields(submission) ==
    [submission EXCEPT !.responses =
        [n \in 1..Len(submission.responses) |->
            [question_id |-> submission.responses[n].question_id,
             response    |-> submission.responses[n].response]]]

\* The pairs of request bodies that differ at most in the domain and
\* question_type their responses carry.
ClientVariants ==
    {p \in Submissions \X Submissions :
        WithoutClientFields(p[1]) = WithoutClientFields(p[2])}

\* What a request that has been validated came to: the refusal, or the
\* acceptance with its scores and ratings.
Outcome(r) ==
    IF r.pc = "inserting"
    THEN [accepted |-> TRUE,
          domain_scores      |-> r.result_data.domain_scores,
          descriptive_scores |-> r.result_data.descriptive_scores,
          total_score        |-> r.result_data.total_score,
          overall_rating     |-> r.result_data.overall_rating,
          domain_ratings     |-> r.domain_ratings]
    ELSE IF r.status_code = 200
    THEN [accepted |-> TRUE,
          domain_scores      |-> r.body.domain_scores,
          descriptive_scores |-> r.body.descriptive_scores,
          total_score        |-> r.body.total_score,
          overall_rating     |-> r.body.overall_rating,
          domain_ratings     |-> r.body.domain_ratings]
    ELSE [accepted |-> FALSE, status_code |-> r.status_code, body |-> r.body]

\* C13: two submissions that differ only in the domain / question_type their
\* responses carry get the same accept/reject outcome and the same scores
\* and ratings: validation and scoring use the catalog's domain and type.
C13_ClientFieldsIgnored ==
    \A s \in Busy, t \in Busy :
        <<req[s].submission, req[t].submission>> \in ClientVariants =>
            Outcome(req[s]) = Outcome(req[t])

\* Two accepted requests whose bodies differ in the client-supplied fields
\* only, scored 207 both.
C13_Witness ==
    \E s \in Busy, t \in Busy :
        /\ req[s].submission # req[t].submission
        /\ <<req[s].submission, req[t].submission>> \in ClientVariants
        /\ Outcome(req[s]).accepted
        /\ Outcome(req[t]).total_score = 207

-----------------------------------------------------------------------------
(* Concurrent submissions.                                                  *)

\* Every request body with what it comes to when it is the only request the
\* server ever handles: the store empty, no other request in flight.
AloneOutcomes ==
    {[submission |-> submission,
      outcome    |-> Outcome(submit_assessment(submission, seed, 1))] :
        submission \in Submissions, seed \in 1..Len(ShuffleOrders)}

\* C18: in every interleaving of the submissions, each request is accepted
\* or refused, scored and rated as the same request is when run alone; each
\* accepted request has its own record, with its scores, under an id no
\* other record and no other answer carries.
C18_SubmissionsIndependent ==
    /\ \A s \in Busy :
          [submission |-> req[s].submission, outcome |-> Outcome(req[s])] \in AloneOutcomes
    /\ \A m \in 1..Len(results), n \in 1..Len(results) :
          results[m]._id = results[n]._id => m = n
    /\ \A s \in Busy :
          (req[s].pc = "responded" /\ req[s].status_code = 200) =>
              /\ \E n \in 1..Len(results) :
                    /\ ToString(results[n]._id) = req[s].body.id
                    /\ results[n].user_data = req[s].submission.user_data
                    /\ results[n].domain_scores = req[s].body.domain_scores
                    /\ results[n].descriptive_scores = req[s].body.descriptive_scores
                    /\ results[n].total_score = req[s].body.total_score
                    /\ results[n].overall_rating = req[s].body.overall_rating
              /\ \A t \in Busy \ {s} :
                    (req[t].pc = "responded" /\ req[t].status_code = 200) =>
                        req[t].body.id # req[s].body.id

\* Two requests that overlapped: the one that started second (clock reading
\* 2) has been stored first and answered, with other scores than the one
\* that started first and still waits on its insert.
C18_Witness ==
    \E s \in Busy, t \in Busy :
        /\ req[s].pc = "responded" /\ req[s].status_code = 200
        /\ req[s].body.id = "1" /\ req[s].body.created_at = 2
        /\ req[t].pc = "inserting" /\ req[t].result_data.created_at = 1
        /\ req[t].result_data.total_score # req[s].body.total_score

-----------------------------------------------------------------------------
(* The shuffled view and the lookup by id (SpecCatalog).                    *)

\* The ids of the canonical catalog: "1".."70", desc_1 and desc_2.
CanonicalIds == {ToString(n) : n \in 1..70} \cup {"desc_1", "desc_2"}

\* C11: every shuffled view returned has exactly 72 entries, its ids are the
\* canonical ids with none repeated, and entry i carries display number i.
C11_ShuffleIsPermutation ==
    questions_out # <<>> =>
        LET q == questions_out.questions
        IN /\ Len(q) = 72
           /\ questions_out.total_questions = 72
           /\ {q[i].id : i \in 1..Len(q)} = CanonicalIds
           /\ \A i \in 1..Len(q), j \in 1..Len(q) : q[i].id = q[j].id => i = j
           /\ \A i \in 1..Len(q) : q[i].question_number = i

\* A returned view that is not in catalog order: question "1" is not first.
C11_Witness ==
    /\ questions_out # <<>>
    /\ questions_out.questions[1].id # "1"
    /\ \E i \in 2..72 : questions_out.questions[i].id = "1"

\* C12, in every state: the last lookup, whatever views were generated
\* before it and whatever order its own shuffle produced, returned the
\* catalog's text, domain and type for a catalog id, and None for any other.
C12_LookupMatchesCatalog ==
    lookup_out.called =>
        IF lookup_out.question_id \in CanonicalIds
        THEN /\ lookup_out.question # None
             /\ lookup_out.question.id = lookup_out.question_id
             /\ lookup_out.question.question_text =
                   CatalogEntry(lookup_out.question_id).question_text
             /\ lookup_out.question.domain = CatalogEntry(lookup_out.question_id).domain
             /\ lookup_out.question.type = CatalogEntry(lookup_out.question_id).type
        ELSE lookup_out.question = None

\* C12, in every step: generating a view leaves the result of the last
\* lookup as it was, and a lookup repeated for the same id returns the same
\* text, domain and type as before.
C12_StepsKeepLookup ==
    /\ questions_out' # questions_out => lookup_out' = lookup_out
    /\ (lookup_out.called /\ lookup_out'.question_id = lookup_out.question_id) =>
          IF lookup_out.question = None THEN lookup_out'.question = None
          ELSE /\ lookup_out'.question # None
               /\ lookup_out'.question.question_text = lookup_out.question.question_text
               /\ lookup_out'.question.domain = lookup_out.question.domain
               /\ lookup_out'.question.type = lookup_out.question.type

\* C12: question lookup by id is independent of shuffling.
C12_LookupIndependentOfShuffle ==
    []C12_LookupMatchesCatalog /\ [][C12_StepsKeepLookup]_vars

\* A lookup of question "17" made under a shuffle that put it at another
\* place than the one of the view generated before.
C12_Witness ==
    /\ questions_out # <<>>
    /\ lookup_out.called
    /\ lookup_out.question_id = "17"
    /\ lookup_out.question # None
    /\ lookup_out.question.question_number # 17
    /\ \E i \in 1..72 :
          /\ questions_out.questions[i].id = "17"
          /\ i # lookup_out.question.question_number

-----------------------------------------------------------------------------
(* Fetching by id, and the store as the reads leave it (SpecStore).         *)

\* The places of the store holding a document whose id reads as text.
StoredUnder(text) == {n \in 1..Len(results) : ToString(results[n]._id) = text}

\* C15, in every step that answers a fetch by id: the store stays as it is;
\* for an id under which nothing is stored, well-formed or not, the answer
\* is the 404 "Assessment result not found" and nothing else; for an id
\* under which a document is stored, among them every id a successful
\* submission returned, the answer is that document's result, never 404.
C15_FetchStep ==
    (read_out = NoRead /\ read_out'.op = "get_assessment_result") =>
        /\ results' = results
        /\ IF StoredUnder(read_out'.arg) = {}
           THEN read_out'.answer = [status_code |-> 404, body |-> NotFound]
           ELSE /\ read_out'.answer.status_code = 200
                /\ \E n \in StoredUnder(read_out'.arg) :
                      /\ read_out'.answer.body.id = read_out'.arg
                      /\ read_out'.answer.body.user_data = results[n].user_data
                      /\ read_out'.answer.body.domain_scores = results[n].domain_scores
                      /\ read_out'.answer.body.total_score = results[n].total_score
        /\ \A s \in Busy :
              (/\ req[s].pc = "responded" /\ req[s].status_code = 200
               /\ req[s].body.id = read_out'.arg) =>
                  /\ read_out'.answer.status_code = 200
                  /\ read_out'.answer.body.total_score = req[s].body.total_score

\* C15: fetching an id that was never stored yields "not found" and leaves
\* the store unchanged; fetching an id a successful submission returned
\* never yields "not found".
C15_FetchNotFound == [][C15_FetchStep]_vars

\* A malformed id asked for while the store holds a result: answered 404.
C15_Witness ==
    /\ Len(results) >= 1
    /\ read_out.op = "get_assessment_result"
    /\ read_out.arg = "abc"
    /\ read_out.answer.status_code = 404

\* The id a successful submission just returned, fetched and found.
C15_WitnessFound ==
    /\ read_out.op = "get_assessment_result"
    /\ read_out.answer.status_code = 200
    /\ \E s \in Busy :
          /\ req[s].pc = "responded" /\ req[s].status_code = 200
          /\ req[s].body.id = read_out.arg

\* C17, in every step: the store keeps every document it holds, unchanged
\* and at its place, and grows by at most one; a read leaves it as it is; a
\* request is answered with success in exactly the steps that add one
\* document, the one with that request's user data and scores; a request
\* that is refused adds none.
C17_Step ==
    /\ Len(results') \in {Len(results), Len(results) + 1}
    /\ \A n \in 1..Len(results) : results'[n] = results[n]
    /\ read_out' # read_out => results' = results
    /\ \A s \in Slots :
          (req[s].pc # "responded" /\ req'[s].pc = "responded") =>
              IF req'[s].status_code = 200
              THEN /\ Len(results') = Len(results) + 1
                   /\ ToString(results'[Len(results')]._id) = req'[s].body.id
                   /\ results'[Len(results')].user_data = req[s].submission.user_data
                   /\ results'[Len(results')].domain_scores = req'[s].body.domain_scores
                   /\ results'[Len(results')].total_score = req'[s].body.total_score
                   /\ results'[Len(results')].total_time_minutes =
                         req'[s].body.total_time_minutes
              ELSE results' = results
    /\ Len(results') = Len(results) + 1 =>
          \E s \in Slots :
             /\ req[s].pc = "inserting"
             /\ req'[s].pc = "responded" /\ req'[s].status_code = 200

\* C17: the result store is append-only: one record per valid submission,
\* and every stored record stays, with all its fields, through any sequence
\* of submit, fetch, list and statistics operations.
C17_AppendOnly == [][C17_Step]_vars

\* A listing answered when the store held one result, still undelivered
\* after a second submission of the same user has been stored.
C17_Witness ==
    /\ Len(results) = 2
    /\ results[1].user_data = results[2].user_data
    /\ read_out.op = "get_all_assessment_results"
    /\ Len(read_out.answer) = 1

-----------------------------------------------------------------------------
(* Registration (SpecRegister).                                             *)

\* An account of the collection has this value in this field.
InUse(field, value) ==
    \E n \in 1..Len(users) : field \in DOMAIN users[n] /\ users[n][field] = value

\* The slot's request is refused in this step with this reason.
RefusedWith(s, detail) ==
    /\ auth'[s].pc = "responded"
    /\ auth'[s].status_code = 400
    /\ auth'[s].body = [detail |-> detail]
    /\ auth'[s].user_data = auth[s].user_data

\* C16, in every step: a registration whose lookup by email (by username,
\* for an admin registration) is answered while an account has that email
\* (that username) is refused with "Email already registered" ("Username
\* already taken"); a step that refuses or fails a request leaves the
\* collection as it is; and no step removes or changes an account, so an
\* email or username in use when a request arrives is still in use when its
\* lookup is answered.
C16_Step ==
    /\ \A s \in DOMAIN auth :
          /\ (/\ auth[s].pc = "find_one_username" /\ auth'[s] # auth[s]
               /\ InUse("username", auth[s].user_data.username)) =>
                  RefusedWith(s, "Username already taken")
          /\ (/\ auth[s].pc = "find_one_email" /\ auth'[s] # auth[s]
               /\ InUse("email", auth[s].user_data.email)) =>
                  RefusedWith(s, "Email already registered")
          /\ (/\ auth[s].pc # "responded" /\ auth'[s].pc = "responded"
               /\ auth'[s].status_code # 200) =>
                  users' = users
    /\ Len(users') >= Len(users)
    /\ \A n \in 1..Len(users) : users'[n] = users[n]

\* C16: registering with an email an existing account uses (or, for admin
\* registration, a username already taken) is rejected with a descriptive
\* reason, and the rejected registration creates or modifies no account.
C16_DuplicateRejected == [][C16_Step]_vars

\* A user registration refused for the email of the one account there is,
\* and an admin registration refused for its username.
C16_Witness ==
    /\ Len(users) = 1
    /\ \E s \in DOMAIN auth, t \in DOMAIN auth :
          /\ auth[s].pc = "responded" /\ auth[s].kind = "register"
          /\ auth[s].status_code = 400
          /\ auth[s].body = [detail |-> "Email already registered"]
          /\ auth[s].user_data.email = users[1].email
          /\ auth[t].pc = "responded" /\ auth[t].kind = "register_admin"
          /\ auth[t].status_code = 400
          /\ auth[t].body = [detail |-> "Username already taken"]
          /\ auth[t].user_data.username = users[1].username

-----------------------------------------------------------------------------
(* Who the listings answer (SpecAuth).                                      *)

ListingOps ==
    {"get_all_assessment_results", "get_user_assessment_results", "get_user_assessments"}

\* The caller is authenticated and an admin: the token is one jwt.decode
\* accepts and its sub is the id of an account whose role is "admin".
IsAuthenticatedAdmin(credentials) ==
    /\ credentials.scheme = "bearer"
    /\ credentials.credentials.signed
    /\ \E n \in 1..Len(users) :
          /\ ToString(users[n]._id) = credentials.credentials.sub
          /\ users[n].role = "admin"

\* C14, in every step that answers a listing: a caller who is not an
\* authenticated admin is refused (400, 401 or 403) and the answer holds a
\* reason and nothing else; results are in the answer only for an
\* authenticated admin.
C14_ListingStep ==
    (read_out = NoRead /\ read_out'.op \in ListingOps) =>
        IF IsAuthenticatedAdmin(read_out'.credentials)
        THEN read_out'.answer.status_code = 200
        ELSE /\ read_out'.answer.status_code \in {400, 401, 403}
             /\ DOMAIN read_out'.answer.body = {"detail"}
             /\ read_out'.answer.body.detail \in
                   {"Not authenticated", "Could not validate credentials",
                    "User not found", "Inactive user", "Admin access required"}

\* C14: the result listings return results only to a caller who is
\* authenticated and whose role is "admin", in every sequence of register,
\* login, submit and list operations.
C14_ListingsAdminOnly == [][C14_ListingStep]_vars

\* The store holds a result and account 1 is an admin; a caller whose token
\* names account 1 but does not verify is refused with 401.
C14_Witness ==
    /\ Len(results) >= 1
    /\ Len(users) >= 1
    /\ users[1].role = "admin"
    /\ read_out.op = "get_all_assessment_results"
    /\ read_out.credentials = Bearer([signed |-> FALSE, sub |-> "1"])
    /\ read_out.answer.status_code = 401

\* The same listing answered to an authenticated admin, with the result.
C14_WitnessAdmin ==
    /\ read_out.op = "get_all_assessment_results"
    /\ read_out.credentials = Bearer([signed |-> TRUE, sub |-> "1"])
    /\ read_out.answer.status_code = 200
    /\ Len(read_out.answer.body) >= 1

-----------------------------------------------------------------------------
(* One answer per question, and the order of the two timestamps.            *)

\* The positions of responses that answer question q.
AnswersOf(responses, q) ==
    {i \in 1..Len(responses) : responses[i].question_id = q}

\* C21: every stored result answers each of the 70 mcq questions and each of
\* the 2 descriptive questions of the catalog exactly once: no question_id
\* twice, no catalog question left out.
C21_EachQuestionOnce ==
    \A n \in 1..Len(results) :
        \A q \in CatalogIds :
            Cardinality(AnswersOf(results[n].responses, q)) = 1

\* C22: for every validated list of responses, descriptive_scores has
\* exactly the keys desc_1 and desc_2, and the score under the id of each of
\* the two descriptive responses is that response's value.
C22_DescriptiveScoresKeyed ==
    (score_out.validated /\ score_out.valid /\ score_out.scored) =>
        /\ DOMAIN score_out.score.descriptive_scores = {"desc_1", "desc_2"}
        /\ \A i \in 1..Len(responses_in) :
              responses_in[i].question_id \in {"desc_1", "desc_2"} =>
                 score_out.score.descriptive_scores[responses_in[i].question_id]
                    = responses_in[i].response

\* C23: every stored result has completed_at at or after started_at, and
\* with it total_time_minutes >= 0.
C23_CompletedAfterStarted ==
    \A n \in 1..Len(results) :
        /\ ElapsedSeconds(results[n]) >= 0
        /\ results[n].total_time_minutes >= 0

-----------------------------------------------------------------------------
(* A result fetched by the id its submission returned.                      *)

\* A fetch by id answered in this step, for the id that the request in slot
\* s has been given with its successful answer.
FetchesSubmitted(s) ==
    /\ read_out = NoRead
    /\ read_out'.op = "get_assessment_result"
    /\ s \in Busy
    /\ req[s].pc = "responded" /\ req[s].status_code = 200
    /\ req[s].body.id = read_out'.arg

\* C24, in every step that fetches the id a successful submission returned:
\* the fetched result equals the one the submission returned in every
\* field: id, user data, domain scores, descriptive scores, total score,
\* overall rating, the seven domain ratings, the timestamps and the elapsed
\* minutes.
C24_FetchStep ==
    \A s \in Slots :
        FetchesSubmitted(s) =>
            /\ read_out'.answer.status_code = 200
            /\ read_out'.answer.body = req[s].body
            /\ DOMAIN read_out'.answer.body.domain_ratings =
                  {"leadership", "accountability", "communication",
                   "innovation", "sales", "ethics", "collaboration"}

C24_FetchEqualsSubmitted == [][C24_FetchStep]_vars

\* What the round trip does keep: every field but domain_ratings and, for
\* timestamps sent with an offset, started_at and completed_at.
C24_FetchKeepsTheRest ==
    \A s \in Slots :
        FetchesSubmitted(s) =>
            LET fetched == read_out'.answer.body
                sent == req[s].body
                rest(r) == [r EXCEPT !.domain_ratings = 0,
                                     !.started_at = 0, !.completed_at = 0]
            IN /\ read_out'.answer.status_code = 200
               /\ rest(fetched) = rest(sent)
               /\ fetched.domain_ratings = <<>>
               /\ ~sent.started_at.aware => fetched.started_at = sent.started_at
               /\ ~sent.completed_at.aware => fetched.completed_at = sent.completed_at

C24_RestIsKept == [][C24_FetchKeepsTheRest]_vars

-----------------------------------------------------------------------------
(* Registrations handled at the same time (SpecRegister).                   *)

\* C25: no two accounts of the collection have the same email, however the
\* steps of registration requests carrying that email interleave.
C25_EmailsUnique ==
    \A m \in 1..Len(users), n \in 1..Len(users) :
        users[m].email = users[n].email => m = n

-----------------------------------------------------------------------------
(* Who can create an admin account.                                         *)

\* The caller is authenticated: get_current_user accepts the credentials,
\* i.e. the token verifies and its sub is the id of an account.
IsAuthenticated(credentials) == ~IsRaised(get_current_user(credentials))

\* C26, in every step: an account with role "admin" enters the collection
\* only for an admin registration whose caller is authenticated.
C26_AdminStep ==
    \A n \in (Len(users) + 1)..Len(users') :
        users'[n].role = "admin" =>
            \E s \in DOMAIN auth :
                /\ auth[s].pc = "insert_one" /\ auth'[s].pc = "responded"
                /\ auth[s].kind = "register_admin"
                /\ auth[s].user_data.email = users'[n].email
                /\ IsAuthenticated(auth[s].credentials)

\* C26: registering a new admin user requires authentication; an
\* unauthenticated caller never obtains an admin account.
C26_AdminNeedsAuthentication == [][C26_AdminStep]_vars

=============================================================================
